---- MODULE Spec2Model ----
(***************************************************************************)
(* py-staticmaps: the Context of src/staticmaps/context.py (its setters,   *)
(* the viewport fit determine_center_zoom, the render entry points and the *)
(* tile loops) and TileDownloader.get of src/staticmaps/tile_downloader.py. *)
(*                                                                         *)
(* Angles are integers in units of 15 degrees (180 degrees = 12 units);    *)
(* the points handed to the Context have even coordinates, so that the     *)
(* midpoint 0.5 * (lo + hi) of any interval built from them is an integer. *)
(* Fractions of the world (dx, dy) and tile budgets (w, h) are compared by *)
(* cross-multiplication, in integers.                                      *)
(***************************************************************************)
EXTENDS Integers, Sequences, FiniteSets, TLC

VARIABLES
    objects,    \* Context._objects: the sequence of objects added
    center,     \* Context._center: None or Some(point)
    zoom,       \* Context._zoom: None or Some(int)
    provider,   \* Context._tile_provider
    ret,        \* the value returned by the last determine_center_zoom call
    err,        \* the exception the last call raised, or NoErr
    pc,         \* where the render call stands: idle, tiles, done, failed
    mode,       \* which render entry point is running: image or svg
    trans,      \* the Transformer of the render pass
    yy,         \* the tile loop's row counter
    xx,         \* the tile loop's column counter
    requested,  \* the tiles asked of the tile downloader, in order
    drawn,      \* what the pass has drawn at each grid cell
    fetched,    \* the latest tile fetch of the pass: its cell and how it ended
    cache,      \* the tile files of the cache directory: tile key -> bytes
    calls       \* the caller's own TileDownloader.get calls, in order

vars == <<objects, center, zoom, provider, ret, err, pc, mode, trans, yy, xx,
          requested, drawn, fetched, cache, calls>>

ctxVars == <<objects, center, zoom, provider>>
renderVars == <<pc, mode, trans, yy, xx, requested, drawn, fetched, cache, calls>>

(***************************************************************************)
(* Bounds of the model.                                                    *)
(***************************************************************************)
\* the largest max_zoom of a modelled tile provider
MaxZoom == 3
\* the most objects added to one Context
MaxObjects == 2

\* set_zoom accepts 0..30
MaxSetZoom == 30

(***************************************************************************)
(* Optional values: None, or Some(v).                                      *)
(***************************************************************************)
None == <<>>
Some(v) == <<v>>
Val(o) == o[1]

Max(a, b) == IF a >= b THEN a ELSE b
Min(a, b) == IF a <= b THEN a ELSE b
Abs(a) == IF a < 0 THEN -a ELSE a
\* math.ceil(a / b) and math.floor(a / b) for b > 0
CeilDiv(a, b) == -((-a) \div b)
FloorDiv(a, b) == a \div b

RECURSIVE Pow2(_)
Pow2(n) == IF n <= 0 THEN 1 ELSE 2 * Pow2(n - 1)

(***************************************************************************)
(* s2sphere: LatLng, R1Interval (latitude), S1Interval (longitude, may     *)
(* wrap across the antimeridian: lo > hi), LatLngRect.                     *)
(***************************************************************************)
\* pi, in angle units
PI == 12
FullTurn == 2 * PI

LatLng(lat, lng) == [lat |-> lat, lng |-> lng]

\* R1Interval
R1Empty == [lo |-> 1, hi |-> 0]
R1IsEmpty(i) == i.lo > i.hi
R1Union(i, j) ==
    IF R1IsEmpty(i) THEN j
    ELSE IF R1IsEmpty(j) THEN i
    ELSE [lo |-> Min(i.lo, j.lo), hi |-> Max(i.hi, j.hi)]
R1Center(i) == (i.lo + i.hi) \div 2

\* S1Interval
S1Empty == [lo |-> PI, hi |-> -PI]
S1Full == [lo |-> -PI, hi |-> PI]
S1IsEmpty(i) == i.lo - i.hi = FullTurn
S1IsFull(i) == i.hi - i.lo = FullTurn
S1IsInverted(i) == i.lo > i.hi
S1FastContains(i, p) ==
    IF S1IsInverted(i)
    THEN (p >= i.lo \/ p <= i.hi) /\ ~S1IsEmpty(i)
    ELSE p >= i.lo /\ p <= i.hi
S1Contains(i, j) ==
    IF S1IsInverted(i)
    THEN IF S1IsInverted(j)
         THEN j.lo >= i.lo /\ j.hi <= i.hi
         ELSE (j.lo >= i.lo \/ j.hi <= i.hi) /\ ~S1IsEmpty(i)
    ELSE IF S1IsInverted(j)
         THEN S1IsFull(i) \/ S1IsEmpty(j)
         ELSE j.lo >= i.lo /\ j.hi <= i.hi
S1PositiveDistance(a, b) ==
    IF b - a >= 0 THEN b - a ELSE (b + PI) - (a - PI)
S1Union(i, j) ==
    IF S1IsEmpty(j) THEN i
    ELSE IF S1FastContains(i, j.lo)
    THEN IF S1FastContains(i, j.hi)
         THEN IF S1Contains(i, j) THEN i ELSE S1Full
         ELSE [lo |-> i.lo, hi |-> j.hi]
    ELSE IF S1FastContains(i, j.hi)
    THEN [lo |-> j.lo, hi |-> i.hi]
    ELSE IF S1IsEmpty(i) \/ S1FastContains(j, i.lo)
    THEN j
    ELSE IF S1PositiveDistance(j.hi, i.lo) < S1PositiveDistance(i.hi, j.lo)
    THEN [lo |-> j.lo, hi |-> i.hi]
    ELSE [lo |-> i.lo, hi |-> j.hi]
S1Center(i) ==
    LET c == (i.lo + i.hi) \div 2
    IN  IF ~S1IsInverted(i) THEN c
        ELSE IF c <= 0 THEN c + PI ELSE c - PI

\* LatLngRect
EmptyRect == [lat |-> R1Empty, lng |-> S1Empty]
PointRect(p) == [lat |-> [lo |-> p.lat, hi |-> p.lat],
                 lng |-> [lo |-> p.lng, hi |-> p.lng]]
RectUnion(a, b) == [lat |-> R1Union(a.lat, b.lat), lng |-> S1Union(a.lng, b.lng)]
is_point(b) == b.lat.lo = b.lat.hi /\ b.lng.lo = b.lng.hi
get_center(b) == LatLng(R1Center(b.lat), S1Center(b.lng))
RectContainsPoint(b, p) ==
    /\ b.lat.lo <= p.lat /\ p.lat <= b.lat.hi
    /\ S1FastContains(b.lng, p.lng)

(***************************************************************************)
(* The inputs: points, objects, tile providers, image sizes, zooms.        *)
(***************************************************************************)
PtA == LatLng(0, 0)
PtB == LatLng(4, 2)
PtC == LatLng(0, 10)
PtD == LatLng(-4, -10)
Points == {PtA, PtB, PtC, PtD}

\* A marker: its bounds are its point, its glyph needs pixels around it.
Marker(p) == [kind |-> "marker", bounds |-> PointRect(p),
              extra |-> <<5, 30, 9, 0>>]
\* A line: its bounds are the union of its points' rects, in order.
Line(p, q) == [kind |-> "line",
               bounds |-> RectUnion(RectUnion(EmptyRect, PointRect(p)), PointRect(q)),
               extra |-> <<2, 2, 2, 2>>]
Objects == {Marker(PtA), Marker(PtC), Marker(PtD),
            Line(PtA, PtB), Line(PtC, PtD), Line(PtA, PtC), Line(PtD, PtA)}

Providers == {
    [name |-> "osm", tile_size |-> 256, max_zoom |-> MaxZoom, attribution |-> "(c) osm"],
    [name |-> "plain", tile_size |-> 256, max_zoom |-> 1, attribution |-> ""] }
tile_provider_OSM == CHOOSE p \in Providers : p.name = "osm"

\* <<width, height>> of the image asked for
Sizes == {<<800, 500>>, <<400, 400>>, <<100, 100>>}

ZoomInputs == {-1, 0, 1, MaxZoom, MaxZoom + 1, MaxSetZoom, MaxSetZoom + 1}

(***************************************************************************)
(* Context: the fit.                                                       *)
(***************************************************************************)
NoErr == <<"none", 0>>
NoRet == [center |-> None, zoom |-> None, via |-> "nocall", width |-> 0, height |-> 0]
NoTrans == [zoom |-> 0, first_tile_x |-> 0, first_tile_y |-> 0,
            tiles_x |-> 0, tiles_y |-> 0]
NoFetch == [xx |-> 0, yy |-> 0, outcome |-> "none", data |-> None]

\* a clamp that turns an unset zoom into 0
clamp_zoom_none_is_0(z) ==
    IF z = None THEN Some(0)
    ELSE IF Val(z) < 0 THEN Some(0)
    ELSE IF Val(z) > provider.max_zoom THEN Some(provider.max_zoom)
    ELSE z

\* a clamp with no upper limit
clamp_zoom_no_upper(z) ==
    IF z = None THEN None
    ELSE IF Val(z) < 0 THEN Some(0)
    ELSE z

clamp_zoom(z) ==
    IF z = None THEN None
    ELSE IF Val(z) < 0 THEN Some(0)
    ELSE IF Val(z) > provider.max_zoom THEN Some(provider.max_zoom)
    ELSE z

RECURSIVE UnionBounds(_, _)
UnionBounds(i, bounds) ==
    IF i > Len(objects) THEN bounds
    ELSE UnionBounds(i + 1, RectUnion(bounds, objects[i].bounds))

object_bounds ==
    IF Len(objects) = 0 THEN None ELSE Some(UnionBounds(1, EmptyRect))

RECURSIVE MaxExtra(_, _)
MaxExtra(i, m) ==
    IF i > Len(objects) THEN m
    ELSE LET e == objects[i].extra
         IN  MaxExtra(i + 1, <<Max(m[1], e[1]), Max(m[2], e[2]),
                               Max(m[3], e[3]), Max(m[4], e[4])>>)

extra_pixel_bounds ==
    MaxExtra(1, IF provider.attribution = "" THEN <<0, 0, 0, 12>> ELSE <<0, 0, 0, 0>>)

\* the Mercator y of a latitude, (1 - ln(tan(lat) + sec(lat)) / pi) / 2, in
\* 1/MercScale of the world's height
MercScale == 4096
MercY(lat) ==
    CASE lat = -4 -> 2907
      [] lat = -2 -> 2406
      [] lat = 0  -> 2048
      [] lat = 2  -> 1690
      [] lat = 4  -> 1189

\* the tile budget's numerators: w = BudgetW / tile_size, h = BudgetH / tile_size
BudgetW(width) ==
    LET pixel_margin == extra_pixel_bounds
    IN  width - 2 * Max(pixel_margin[1], pixel_margin[3])
BudgetH(height) ==
    LET pixel_margin == extra_pixel_bounds
    IN  height - 2 * Max(pixel_margin[2], pixel_margin[4])

\* dx = SpanX(b) / FullTurn: the longitude span as a fraction of the world
SpanX(b) ==
    LET d0 == b.lng.hi - b.lng.lo
        d1 == IF d0 < 0 THEN d0 + FullTurn * CeilDiv(Abs(d0), FullTurn) ELSE d0
    IN  IF d1 > FullTurn THEN d1 - FullTurn * FloorDiv(d1, FullTurn) ELSE d1
\* dy = SpanY(b) / MercScale
SpanY(b) == Abs(MercY(b.lat.hi) - MercY(b.lat.lo))

\* (dx * tiles > w) or (dy * tiles > h), with tiles = 2 ** z
Overflows(b, width, height, z) ==
    \/ SpanX(b) * Pow2(z) * provider.tile_size > BudgetW(width) * FullTurn
    \/ SpanY(b) * Pow2(z) * provider.tile_size > BudgetH(height) * MercScale

\* the first zoom the search loop tries
SearchFrom == 1

\* a search that returns the overflowing zoom itself
RECURSIVE ZoomSearchOffByOne(_, _, _, _)
ZoomSearchOffByOne(b, width, height, z) ==
    IF z >= provider.max_zoom THEN provider.max_zoom
    ELSE IF Overflows(b, width, height, z) THEN z
    ELSE ZoomSearchOffByOne(b, width, height, z + 1)

\* for zoom in range(z, max_zoom): ...; return max_zoom
RECURSIVE ZoomSearch(_, _, _, _)
ZoomSearch(b, width, height, z) ==
    IF z >= provider.max_zoom THEN provider.max_zoom
    ELSE IF Overflows(b, width, height, z) THEN z - 1
    ELSE ZoomSearch(b, width, height, z + 1)

\* a fit that leaves the fixed center out of the rect
FitRectNoCenter(b) == b

\* the rect that is fitted: the object bounds, with the fixed center if set
FitRect(b) ==
    IF center # None THEN RectUnion(b, PointRect(Val(center))) ELSE b

Result(c, z, via, width, height) ==
    [center |-> c, zoom |-> z, via |-> via, width |-> width, height |-> height]

\* a fit that searches a zoom for a single point too
FitBoundsNoPointCase(b, width, height) ==
    Result(Some(get_center(b)), Some(ZoomSearch(b, width, height, SearchFrom)),
           "search", width, height)

\* the fit of rect b when no zoom is set
FitBounds(b, width, height) ==
    IF is_point(b)
    THEN Result(Some(get_center(b)), None, "point", width, height)
    ELSE Result(Some(get_center(b)), Some(ZoomSearch(b, width, height, SearchFrom)),
                "search", width, height)

determine_center_zoom(width, height) ==
    IF center # None /\ zoom # None
    THEN Result(center, clamp_zoom(zoom), "fixed", width, height)
    ELSE IF object_bounds = None
    THEN Result(center, clamp_zoom(zoom), "nobounds", width, height)
    ELSE IF zoom # None
    THEN Result(Some(get_center(Val(object_bounds))), clamp_zoom(zoom), "zoomset",
                width, height)
    ELSE FitBounds(FitRect(Val(object_bounds)), width, height)

(***************************************************************************)
(* Context: the operations.                                                *)
(***************************************************************************)
\* a check against the provider's max_zoom instead of 30
BadZoomAboveMax(z) == z < 0 \/ z > provider.max_zoom

BadZoom(z) == z < 0 \/ z > MaxSetZoom

set_zoom(z) ==
    /\ pc = "idle"
    /\ IF BadZoom(z)
       THEN err' = <<"ValueError", z>> /\ UNCHANGED zoom
       ELSE zoom' = Some(z) /\ err' = NoErr
    /\ ret' = NoRet
    /\ UNCHANGED <<objects, center, provider, renderVars>>

set_center(latlng) ==
    /\ pc = "idle"
    /\ center' = Some(latlng)
    /\ err' = NoErr
    /\ ret' = NoRet
    /\ UNCHANGED <<objects, zoom, provider, renderVars>>

set_tile_provider(p) ==
    /\ pc = "idle"
    /\ provider' = p
    /\ err' = NoErr
    /\ ret' = NoRet
    /\ UNCHANGED <<objects, center, zoom, renderVars>>

add_object(obj) ==
    /\ pc = "idle"
    /\ Len(objects) < MaxObjects
    /\ objects' = Append(objects, obj)
    /\ err' = NoErr
    /\ ret' = NoRet
    /\ UNCHANGED <<center, zoom, provider, renderVars>>

CallDetermineCenterZoom(size) ==
    /\ pc = "idle"
    /\ ret' = determine_center_zoom(size[1], size[2])
    /\ err' = NoErr
    /\ UNCHANGED <<ctxVars, renderVars>>

Init ==
    /\ objects = <<>>
    /\ center = None
    /\ zoom = None
    /\ provider = tile_provider_OSM
    /\ ret = NoRet
    /\ err = NoErr
    /\ pc = "idle"
    /\ mode = "none"
    /\ trans = NoTrans
    /\ yy = 0
    /\ xx = 0
    /\ requested = {}
    /\ drawn = {}
    /\ fetched = NoFetch
    /\ cache = <<>>
    /\ calls = <<>>

SetZoom == \E z \in ZoomInputs : set_zoom(z)
SetCenter == \E p \in Points : set_center(p)
SetTileProvider == \E p \in Providers : set_tile_provider(p)
AddObject == \E obj \in Objects : add_object(obj)
DetermineCenterZoom == \E size \in Sizes : CallDetermineCenterZoom(size)

Next ==
    \/ SetZoom
    \/ SetCenter
    \/ SetTileProvider
    \/ AddObject
    \/ DetermineCenterZoom

Spec == Init /\ [][Next]_vars

(***************************************************************************)
(* TileDownloader.get and the tile fetch of the Context.                   *)
(***************************************************************************)
\* the bytes a tile server answers with: an image, or something that is none
ServerData == {"png", "garbage"}
\* get_no_connection_image_data(): the 'Could not download map tiles' PNG
NoConnectionImage == "noconnection.png"

\* cache_file_name: one file per provider name, zoom, x and y
cache_file_name(z, x, y) == <<provider.name, z, x, y>>

\* a get that stores the placeholder of a failed connection as the tile
TileDownloaderGetStoresPlaceholder(z, x, y) ==
    LET file_name == cache_file_name(z, x, y)
    IN  IF file_name \in DOMAIN cache
        THEN {[outcome |-> "cached", data |-> Some(cache[file_name]),
               raises |-> "none", request |-> FALSE, cache |-> cache]}
        ELSE {[outcome |-> "unavailable", data |-> None,
               raises |-> "none", request |-> FALSE, cache |-> cache],
              [outcome |-> "noconnection", data |-> Some(NoConnectionImage),
               raises |-> "none", request |-> TRUE,
               cache |-> (file_name :> NoConnectionImage) @@ cache],
              [outcome |-> "badstatus", data |-> None,
               raises |-> "RuntimeError", request |-> TRUE, cache |-> cache]}
             \cup {[outcome |-> "ok", data |-> Some(d), raises |-> "none",
                    request |-> TRUE,
                    cache |-> (file_name :> d) @@ cache] : d \in ServerData}

\* TileDownloader.get(provider, cache_dir, zoom, x, y): every way the call can
\* end. A cached file is returned as it is; else the url may be None, the
\* request may fail to connect (the placeholder is returned), the server may
\* answer 200 (the bytes are stored, then returned) or another status
\* (RuntimeError). request: requests.get was called.
TileDownloaderGet(z, x, y) ==
    LET file_name == cache_file_name(z, x, y)
    IN  IF file_name \in DOMAIN cache
        THEN {[outcome |-> "cached", data |-> Some(cache[file_name]),
               raises |-> "none", request |-> FALSE, cache |-> cache]}
        ELSE {[outcome |-> "unavailable", data |-> None,
               raises |-> "none", request |-> FALSE, cache |-> cache],
              [outcome |-> "noconnection", data |-> Some(NoConnectionImage),
               raises |-> "none", request |-> TRUE, cache |-> cache],
              [outcome |-> "badstatus", data |-> None,
               raises |-> "RuntimeError", request |-> TRUE, cache |-> cache]}
             \cup {[outcome |-> "ok", data |-> Some(d), raises |-> "none",
                    request |-> TRUE,
                    cache |-> (file_name :> d) @@ cache] : d \in ServerData}

\* Image.open and cairo's create_from_png accept the bytes
Decodes(d) == d # "garbage"

\* fetch_tile_image / fetch_tile_svg_data on the result g of the get: the
\* exception that leaves the fetch, if any. The image fetch decodes the bytes;
\* the svg fetch embeds them as they are.
FetchRaises(m, g) ==
    IF g.raises # "none" THEN g.raises
    ELSE IF g.data = None THEN "none"
    ELSE IF m = "image" /\ ~Decodes(Val(g.data)) THEN "UnidentifiedImageError"
    ELSE "none"

(***************************************************************************)
(* Context: the render entry points and the tile loops.                    *)
(***************************************************************************)
\* Transformer.number_of_tiles
number_of_tiles(t) == Pow2(t.zoom)

\* a row check that forgets the rows above the map
RowInRangeNoLower(t, y) == ~(y >= number_of_tiles(t))

\* not (y < 0 or y >= trans.number_of_tiles())
RowInRange(t, y) == ~(y < 0 \/ y >= number_of_tiles(t))

TileY(t, row) == t.first_tile_y + row
TileX(t, col) == (t.first_tile_x + col) % number_of_tiles(t)

\* a render check that only looks at the zoom
CannotRenderZoomOnly(r) == r.zoom = None

\* center is None or zoom is None
CannotRender(r) == r.center = None \/ r.zoom = None

\* a tile loop that catches nothing
CaughtNothing(e) == FALSE

\* except RuntimeError: pass
Caught(e) == e = "RuntimeError"

\* the Transformers a render pass may build for the zoom of the fit: the
\* first tiles of the viewport (negative when the viewport leaves the map)
\* and the tiles per axis
FirstTiles == {-1, 0, 1}
TileCounts == {1, 2}
Transformers(z) ==
    {[zoom |-> z, first_tile_x |-> fx, first_tile_y |-> fy,
      tiles_x |-> tx, tiles_y |-> ty] :
        fx \in FirstTiles, fy \in FirstTiles, tx \in TileCounts, ty \in TileCounts}

\* render_image(width, height) / render_svg(width, height), up to the tile loop
render_begin(m, size, t) ==
    /\ pc = "idle"
    /\ LET r == determine_center_zoom(size[1], size[2])
       IN  /\ ret' = r
           /\ IF CannotRender(r)
              THEN /\ err' = <<"RuntimeError", 0>>
                   /\ pc' = "failed"
                   /\ UNCHANGED <<mode, trans>>
              ELSE /\ err' = NoErr
                   /\ pc' = "tiles"
                   /\ mode' = m
                   /\ t.zoom = Val(r.zoom)
                   /\ trans' = t
    /\ yy' = 0
    /\ xx' = 0
    /\ requested' = {}
    /\ drawn' = {}
    /\ fetched' = NoFetch
    /\ UNCHANGED <<ctxVars, cache, calls>>

\* the loop's position after the cell (xx, yy)
NextXX == IF xx + 1 < trans.tiles_x THEN xx + 1 ELSE 0
NextYY == IF xx + 1 < trans.tiles_x THEN yy ELSE yy + 1

\* a row outside [0, number_of_tiles): continue
skip_row ==
    /\ pc = "tiles"
    /\ yy < trans.tiles_y
    /\ ~RowInRange(trans, TileY(trans, yy))
    /\ yy' = yy + 1
    /\ xx' = 0
    /\ UNCHANGED <<ctxVars, ret, err, pc, mode, trans, requested, drawn, fetched, cache, calls>>

\* one pass of the inner loop: fetch the tile of cell (xx, yy), draw it
fetch_tile(g) ==
    /\ pc = "tiles"
    /\ yy < trans.tiles_y
    /\ RowInRange(trans, TileY(trans, yy))
    /\ xx < trans.tiles_x
    /\ LET y == TileY(trans, yy)
           x == TileX(trans, xx)
           e == FetchRaises(mode, g)
       IN  /\ g \in TileDownloaderGet(trans.zoom, x, y)
           /\ requested' = requested \cup
                  {[xx |-> xx, yy |-> yy, z |-> trans.zoom, x |-> x, y |-> y]}
           /\ fetched' = [xx |-> xx, yy |-> yy, outcome |-> g.outcome, data |-> g.data]
           /\ cache' = g.cache
           /\ IF e # "none" /\ ~Caught(e)
              THEN /\ pc' = "failed"
                   /\ err' = <<e, 0>>
                   /\ UNCHANGED <<xx, yy, drawn>>
              ELSE /\ drawn' = IF e = "none" /\ g.data # None
                               THEN drawn \cup {[xx |-> xx, yy |-> yy, what |-> Val(g.data)]}
                               ELSE drawn
                   /\ xx' = NextXX
                   /\ yy' = NextYY
                   /\ UNCHANGED <<pc, err>>
    /\ UNCHANGED <<ctxVars, ret, mode, trans, calls>>

\* the loop is over: the objects and the attribution are drawn, the image is
\* returned
render_end ==
    /\ pc = "tiles"
    /\ yy >= trans.tiles_y
    /\ pc' = "done"
    /\ UNCHANGED <<ctxVars, ret, err, mode, trans, yy, xx, requested, drawn, fetched, cache, calls>>

\* the Contexts a render is asked of
RenderObjects == {<<>>, <<Marker(PtA)>>, <<Line(PtA, PtB)>>}
RenderZooms == {None, Some(0), Some(1)}
RenderSizes == {<<400, 400>>}

InitRender ==
    /\ objects \in RenderObjects
    /\ center \in {None, Some(PtA)}
    /\ zoom \in RenderZooms
    /\ provider \in Providers
    /\ ret = NoRet
    /\ err = NoErr
    /\ pc = "idle"
    /\ mode = "none"
    /\ trans = NoTrans
    /\ yy = 0
    /\ xx = 0
    /\ requested = {}
    /\ drawn = {}
    /\ fetched = NoFetch
    /\ cache = <<>>
    /\ calls = <<>>

RenderImage == \E size \in RenderSizes, z \in 0..MaxZoom :
                   \E t \in Transformers(z) : render_begin("image", size, t)
RenderSvg == \E size \in RenderSizes, z \in 0..MaxZoom :
                 \E t \in Transformers(z) : render_begin("svg", size, t)
SkipRow == skip_row
FetchTile == \E g \in TileDownloaderGet(trans.zoom, TileX(trans, xx), TileY(trans, yy)) :
                 fetch_tile(g)
RenderEnd == render_end
FitOnly == \E size \in RenderSizes : CallDetermineCenterZoom(size)

NextRender ==
    \/ FitOnly
    \/ RenderImage
    \/ RenderSvg
    \/ SkipRow
    \/ FetchTile
    \/ RenderEnd

SpecRender == InitRender /\ [][NextRender]_vars

(***************************************************************************)
(* The fit: what determine_center_zoom returns.                            *)
(***************************************************************************)
\* the last call returned, and no setter ran since
Returned == ret.via # "nocall"

\* the rect the zoom search ran on
SearchedRect == FitRect(Val(object_bounds))

\* the union of all object bounds, computed pairwise
AllObjectBounds == UnionBounds(1, EmptyRect)

\* the rect fits the tile budget of the call at zoom z
FitsAt(z) == ~Overflows(SearchedRect, ret.width, ret.height, z)

\* every object is the single point p, and so is the fixed center if set
ContentIsPoint(p) ==
    /\ \A i \in 1..Len(objects) : objects[i].bounds = PointRect(p)
    /\ center # None => Val(center) = p
    /\ Len(objects) > 0 \/ center # None
ContentIsSinglePoint == \E p \in Points : ContentIsPoint(p)
ContentIsEmpty == Len(objects) = 0 /\ center = None

\* C1: tightest fit. For a non-point rect with no fixed zoom (a rect that
\* fits the tile budget at zoom 0, so that some zoom fits), the returned
\* zoom z fits the rect, and z + 1 does not fit unless z is max_zoom.
C1_TightestFit ==
    (ret.via = "search" /\ FitsAt(0)) =>
        /\ FitsAt(Val(ret.zoom))
        /\ Val(ret.zoom) = provider.max_zoom \/ ~FitsAt(Val(ret.zoom) + 1)

\* C2 as stated: if the bounds overflow at zoom 1, or no zoom up to max_zoom
\* overflows, the search returns max_zoom.
C2_Original ==
    ret.via = "search" =>
        ((~FitsAt(1) \/ \A z \in 1..provider.max_zoom : FitsAt(z))
            => ret.zoom = Some(provider.max_zoom))

\* C2, amended: if the bounds overflow at zoom 1 the search returns 0 (or
\* max_zoom, when max_zoom <= 1 and the search range is empty); if no zoom up
\* to max_zoom overflows, it returns max_zoom.
C2_OverflowAtOneGivesZero ==
    ret.via = "search" =>
        /\ (~FitsAt(1) /\ provider.max_zoom >= 2) => ret.zoom = Some(0)
        /\ (~FitsAt(1) /\ provider.max_zoom <= 1) => ret.zoom = Some(provider.max_zoom)
        /\ (\A z \in 1..provider.max_zoom : FitsAt(z))
               => ret.zoom = Some(provider.max_zoom)

C2_Witness ==
    /\ ret.via = "search"
    /\ ~FitsAt(1)
    /\ provider.max_zoom >= 2
    /\ ret.zoom = Some(0)

\* C3: with no zoom and no center set, when all object bounds are one single
\* point, determine_center_zoom returns that point and zoom None, for every
\* image size and margins.
C3_SinglePointGivesNoZoom ==
    \A p \in Points :
        (Returned /\ zoom = None /\ center = None /\ Len(objects) > 0
            /\ ContentIsPoint(p))
        => (ret.center = Some(p) /\ ret.zoom = None)

C3_Witness ==
    /\ Returned
    /\ zoom = None /\ center = None
    /\ Len(objects) = 2
    /\ ContentIsSinglePoint
    /\ ret.zoom = None
    /\ ret.width = 100

\* C4 as stated: the returned zoom is None exactly when no zoom was set and
\* the content (object bounds, with the fixed center) is a single point.
C4_Original ==
    Returned => (ret.zoom = None <=> (zoom = None /\ ContentIsSinglePoint))

\* C4, amended: the returned zoom is None exactly when no zoom was set and
\* the content is a single point or there is no content at all (no objects
\* and no center).
C4_NoneIffPointOrEmpty ==
    Returned =>
        (ret.zoom = None <=> (zoom = None /\ (ContentIsSinglePoint \/ ContentIsEmpty)))

C4_Witness ==
    /\ Returned
    /\ ContentIsEmpty
    /\ zoom = None
    /\ ret.zoom = None
    /\ ret.center = None

\* C6: when a zoom is set, determine_center_zoom returns it clamped into
\* [0, max_zoom] without the fit search; the center is the fixed center when
\* set, and the center of the union of the object bounds when it is not set
\* and objects exist.
C6_SetZoomIsClamped ==
    (Returned /\ zoom # None) =>
        /\ ret.zoom = Some(Min(Max(Val(zoom), 0), provider.max_zoom))
        /\ ret.via \notin {"search", "point"}
        /\ center # None => ret.center = center
        /\ (center = None /\ Len(objects) > 0)
               => ret.center = Some(get_center(AllObjectBounds))

C6_Witness ==
    /\ Returned
    /\ zoom # None /\ Val(zoom) > provider.max_zoom
    /\ center = None
    /\ Len(objects) = 2
    /\ ~is_point(AllObjectBounds)
    /\ ret.zoom = Some(provider.max_zoom)

\* C9 as stated: set_zoom never fails, and the fit uses the set zoom clamped
\* into [0, max_zoom].
C9_Original ==
    /\ err[1] # "ValueError"
    /\ (Returned /\ zoom # None)
           => ret.zoom = Some(Min(Max(Val(zoom), 0), provider.max_zoom))

\* C9, amended: set_zoom rejects a zoom below 0 or above 30 with a ValueError
\* and leaves the zoom as it was; it accepts every zoom in [0, 30], and the
\* fit then uses max_zoom for a zoom above max_zoom and the zoom itself
\* otherwise.
C9_RejectOutside30ClampAboveMax ==
    /\ [][\A z \in ZoomInputs :
            set_zoom(z) =>
                IF z < 0 \/ z > 30
                THEN err' = <<"ValueError", z>> /\ zoom' = zoom
                ELSE err' = NoErr /\ zoom' = Some(z)]_vars
    /\ []((Returned /\ zoom # None) =>
            /\ Val(zoom) \in 0..30
            /\ ret.zoom = Some(IF Val(zoom) > provider.max_zoom
                               THEN provider.max_zoom ELSE Val(zoom)))

C9_Witness ==
    /\ err = <<"ValueError", 31>>
    /\ zoom = Some(MaxZoom + 1)

\* the rect is symmetric about the point p
SymmetricAbout(b, p) ==
    /\ p.lat - b.lat.lo = b.lat.hi - p.lat
    /\ \/ S1IsFull(b.lng)
       \/ S1PositiveDistance(b.lng.lo, p.lng) = S1PositiveDistance(p.lng, b.lng.hi)

\* C10: with a fixed center, no zoom and objects, the fit takes the union of
\* the object bounds with the fixed center: the returned center is the center
\* of that union (the fixed center only when the union is symmetric about
\* it), and the fixed center lies inside the rect the zoom search uses.
C10_FitsUnionWithCenter ==
    (Returned /\ center # None /\ zoom = None /\ Len(objects) > 0) =>
        /\ ret.center = Some(get_center(RectUnion(AllObjectBounds, PointRect(Val(center)))))
        /\ RectContainsPoint(SearchedRect, Val(center))
        /\ ret.center = center => SymmetricAbout(SearchedRect, Val(center))

C10_Witness ==
    /\ Returned
    /\ center # None /\ zoom = None /\ Len(objects) > 0
    /\ ret.via = "search"
    /\ ret.center # center
    /\ S1IsInverted(SearchedRect.lng)

(***************************************************************************)
(* The render entry points and the tile loops.                             *)
(***************************************************************************)
\* the grid cells of the pass whose row lies on the map
InRangeCells ==
    {c \in (0..(trans.tiles_x - 1)) \X (0..(trans.tiles_y - 1)) :
        trans.first_tile_y + c[2] >= 0
        /\ trans.first_tile_y + c[2] < Pow2(trans.zoom)}

\* the cells the loop has passed
CellsBefore ==
    {c \in InRangeCells : c[2] < yy \/ (c[2] = yy /\ c[1] < xx)}

RequestedCells == {<<r.xx, r.yy>> : r \in requested}
DrawnCells == {<<d.xx, d.yy>> : d \in drawn}

\* the render call raised before any rendering step
FailedBeforeRendering ==
    /\ pc = "failed"
    /\ err[1] = "RuntimeError"
    /\ trans = NoTrans
    /\ requested = {}
    /\ drawn = {}

\* C5 as stated: with no objects and no fixed center, a fit or a render fails
\* with an error, whether or not a zoom is set; no center/zoom result is
\* produced and no rendering step is started.
C5_Original ==
    ContentIsEmpty =>
        /\ Returned => (err[1] # "none" /\ ret.center = None /\ ret.zoom = None)
        /\ pc # "idle" => FailedBeforeRendering

\* C5, amended: with no objects and no fixed center, render_image and
\* render_svg raise RuntimeError before any rendering step, whether or not a
\* zoom is set; determine_center_zoom itself does not raise: it returns
\* center None and the set zoom clamped to max_zoom (None when none is set).
C5_RenderFailsFitReturnsNoCenter ==
    ContentIsEmpty =>
        /\ pc # "idle" => FailedBeforeRendering
        /\ Returned =>
              /\ ret.center = None
              /\ ret.zoom = IF zoom = None THEN None
                            ELSE Some(Min(Val(zoom), provider.max_zoom))
              /\ pc = "idle" => err = NoErr

C5_Witness ==
    /\ ContentIsEmpty
    /\ zoom # None
    /\ FailedBeforeRendering
    /\ ret.zoom # None

\* C7: every tile the tile loops request has y in [0, 2^zoom) and x in
\* [0, 2^zoom), x being (first_tile_x + xx) mod 2^zoom, for every first tile
\* (negative ones too), tile count and zoom; a row with y outside the range
\* requests nothing.
C7_RequestedTilesOnTheMap ==
    \A r \in requested :
        /\ r.z = trans.zoom
        /\ r.y = trans.first_tile_y + r.yy
        /\ r.y >= 0 /\ r.y < Pow2(trans.zoom)
        /\ r.x >= 0 /\ r.x < Pow2(trans.zoom)
        /\ \E k \in -2..2 : r.x = trans.first_tile_x + r.xx + k * Pow2(trans.zoom)

C7_Witness ==
    /\ pc = "done"
    /\ trans.first_tile_x < 0
    /\ trans.first_tile_y < 0
    /\ trans.tiles_y = 2
    /\ trans.zoom = 1
    /\ Cardinality(requested) = 2
    /\ \E r \in requested : r.xx = 0 /\ r.x = 1

\* the tile fetch at the latest cell ended without a tile
FetchFailed == fetched.outcome \in {"unavailable", "noconnection", "badstatus"}
NothingDrawnAtFetched == <<fetched.xx, fetched.yy>> \notin DrawnCells

\* C8 as stated: whatever a tile fetch ends in (bytes, None, a connection
\* error, a non-200 status), the pass is not aborted: the loop requests every
\* remaining in-range cell and the render completes; a cell whose tile is
\* missing or whose fetch failed draws nothing.
C8_Original ==
    /\ pc = "failed" => trans = NoTrans
    /\ pc = "tiles" => RequestedCells = CellsBefore
    /\ pc = "done" => RequestedCells = InRangeCells
    /\ FetchFailed => NothingDrawnAtFetched

\* C8, amended: a tile fetch that ends in None, a connection error or a
\* non-200 status never aborts the pass: the loop requests every remaining
\* in-range cell and the render completes. A cell whose tile is unavailable
\* or whose fetch got a non-200 status draws nothing; after a connection
\* error the 'no connection' placeholder is drawn at the cell. The pass is
\* aborted only by render_image getting bytes that are no image.
C8_FailedFetchNeverAborts ==
    /\ (pc = "failed" /\ trans # NoTrans) =>
           /\ mode = "image"
           /\ fetched.outcome \in {"ok", "cached"}
           /\ fetched.data = Some("garbage")
    /\ pc = "tiles" => RequestedCells = CellsBefore
    /\ pc = "tiles" => ENABLED (SkipRow \/ FetchTile \/ RenderEnd)
    /\ pc = "done" => RequestedCells = InRangeCells
    /\ fetched.outcome \in {"unavailable", "badstatus"} => NothingDrawnAtFetched
    /\ fetched.outcome = "noconnection" =>
           [xx |-> fetched.xx, yy |-> fetched.yy, what |-> NoConnectionImage] \in drawn

C8_Witness ==
    /\ pc = "done"
    /\ Cardinality(requested) = 4
    /\ fetched.outcome = "badstatus"
    /\ Cardinality(drawn) = 1
    /\ \E d \in drawn : d.what = NoConnectionImage

(***************************************************************************)
(* TileDownloader.get, called over and over.                               *)
(***************************************************************************)
\* the most get calls of one run
MaxGets == 4

\* the tiles asked for: <<zoom, x, y>>
DownloadTiles == {<<1, 0, 0>>, <<1, 1, 0>>}

\* downloader.get(provider, cache_dir, zoom, x, y), ending as g
tile_get(tile, g) ==
    /\ pc = "idle"
    /\ Len(calls) < MaxGets
    /\ g \in TileDownloaderGet(tile[1], tile[2], tile[3])
    /\ calls' = Append(calls,
                       [file |-> cache_file_name(tile[1], tile[2], tile[3]),
                        outcome |-> g.outcome, data |-> g.data,
                        raises |-> g.raises, request |-> g.request])
    /\ cache' = g.cache
    /\ err' = IF g.raises = "none" THEN NoErr ELSE <<g.raises, 0>>
    /\ UNCHANGED <<ctxVars, ret, pc, mode, trans, yy, xx, requested, drawn, fetched>>

InitDownload ==
    /\ objects = <<>>
    /\ center = None
    /\ zoom = None
    /\ provider \in Providers
    /\ ret = NoRet
    /\ err = NoErr
    /\ pc = "idle"
    /\ mode = "none"
    /\ trans = NoTrans
    /\ yy = 0
    /\ xx = 0
    /\ requested = {}
    /\ drawn = {}
    /\ fetched = NoFetch
    /\ cache = <<>>
    /\ calls = <<>>

TileGet == \E tile \in DownloadTiles :
               \E g \in TileDownloaderGet(tile[1], tile[2], tile[3]) : tile_get(tile, g)

NextDownload == TileGet

SpecDownload == InitDownload /\ [][NextDownload]_vars

\* the calls for the file of call i that came before it
EarlierCalls(i) == {k \in 1..(i - 1) : calls[k].file = calls[i].file}
\* call i is the first for its file after call k
NextCallAfter(k, i) ==
    /\ k < i
    /\ calls[k].file = calls[i].file
    /\ \A m \in (k + 1)..(i - 1) : calls[m].file # calls[i].file

\* C11: get caches only successful downloads. Over the get calls for one
\* tile: after a 200 response every later get returns exactly its bytes and
\* issues no request; a connection error returns the placeholder, another
\* status raises RuntimeError, and both leave the cache entry absent, so that
\* the next get is not served from the cache and (the url given) issues a
\* request again.
C11_OnlySuccessIsCached ==
    /\ \A i \in 1..Len(calls) :
          /\ \A k \in EarlierCalls(i) :
                calls[k].outcome = "ok" =>
                    /\ calls[i].data = calls[k].data
                    /\ ~calls[i].request
                    /\ calls[i].raises = "none"
          /\ calls[i].outcome = "noconnection" =>
                (calls[i].data = Some(NoConnectionImage) /\ calls[i].raises = "none")
          /\ calls[i].outcome = "badstatus" => calls[i].raises = "RuntimeError"
          /\ \A k \in 1..Len(calls) :
                (NextCallAfter(k, i) /\ calls[k].outcome \in {"noconnection", "badstatus"})
                    => /\ calls[i].outcome # "cached"
                       /\ calls[i].outcome # "unavailable" => calls[i].request
    /\ \A f \in DOMAIN cache :
          \E k \in 1..Len(calls) :
              calls[k].file = f /\ calls[k].outcome = "ok" /\ calls[k].data = Some(cache[f])
    /\ (Len(calls) > 0 /\ calls[Len(calls)].outcome \in {"noconnection", "badstatus"}
            /\ \A k \in 1..Len(calls) :
                  calls[k].file = calls[Len(calls)].file => calls[k].outcome # "ok")
           => calls[Len(calls)].file \notin DOMAIN cache

C11_Witness ==
    /\ Len(calls) = 4
    /\ \A i \in 1..4 : calls[i].file = calls[1].file
    /\ calls[1].outcome = "noconnection"
    /\ calls[2].outcome = "badstatus"
    /\ calls[3].outcome = "ok"
    /\ calls[4].outcome = "cached"
    /\ calls[4].data = calls[3].data

====
